---- MODULE Spec2Model ----
(***************************************************************************)
(* Model of voltha/adapters/adtran_olt/flow/evc_map.py: the EVCMap         *)
(* descriptor (decoding in the constructor, install / pon_install /        *)
(* remove / enable / disable / delete) and the static remove_all sweep.    *)
(*                                                                         *)
(* Python's None is the string "None".  A transport request               *)
(* (netconf_client.edit_config / client.get) returns a deferred that fires *)
(* in a later reactor turn, so an @inlineCallbacks method runs up to its   *)
(* `yield` in one step and its continuation runs in a second step that     *)
(* carries the transport's outcome: "ok" (results.ok true), "err"          *)
(* (results.ok false, results.error set) or "exc" (the deferred fails).    *)
(* The caller starts a new operation on the descriptor only after the      *)
(* deferred of its previous call has fired.                                *)
(***************************************************************************)
EXTENDS Integers, Sequences, FiniteSets, TLC

\* ------------------------------------------------------------------ bounds
MaxOnu == 2
MaxGem == 1
MaxCalls == 3
MaxEntries == 2

\* ------------------------------------------------------------- constants
None == "None"
IPv4 == "IPv4"
EAPOL == "EAPOL"
UDP == "UDP"
StatusNoEvc == "Can only create EVC-MAP if EVC supplied"
StatusNoPort == "EVC-MAPS without UNI or PON ports are not supported"
ErrDetail == "rpc-error"

\* handler.is_pon_port / handler.is_uni_port (port-role classification):
\* port 5 is a PON port, port 20 a UNI port, port 1 an NNI port
Ports == {1, 5, 20}
is_pon_port(p) == p = 5
is_uni_port(p) == p = 20

\* EVC_MAP_NAME_FORMAT.format(in_port, flow_id); the fan-out suffix
\* '{}.{}.{}'.format(name, onu_id, gem_id) is kept in `sub`
EVC_MAP_NAME_FORMAT(port, id) == [port |-> port, id |-> id, sub |-> <<>>]
SubName(name, onu_id, gem_id) == [name EXCEPT !.sub = <<onu_id, gem_id>>]
NoName == [port |-> 0, id |-> 0, sub |-> <<>>]

\* --------------------------------------------------------------- inputs
\* pon_port.gem_ids(): onu_id -> set of gem ids, for ONUs 1..k; ONU u owns
\* up to MaxGem gem ports out of its own range of ids
GemsOf(u, n) == {(u - 1) * MaxGem + j : j \in 1 .. n}
GemTables ==
  UNION {{[u \in 1 .. k |-> GemsOf(u, cnt[u])] : cnt \in [1 .. k -> 0 .. MaxGem]}
           : k \in 0 .. MaxOnu}
NoGems == [kind |-> None, tbl |-> <<>>]
EmptyGemSet == [kind |-> "set", tbl |-> <<>>]
GemDict(t) == [kind |-> "dict", tbl |-> t]

\* what handler.get_southbound_port(in_port) gives: None or a PON port
\* whose gem_ids() is one of the tables
SouthboundPorts == {NoGems} \cup {GemDict(t) : t \in GemTables}

EtherTypes == {None, IPv4, EAPOL}
IpProtocols == {None, UDP, "TCP"}
Ipv4Addrs == {None, "10.0.0.1"}
UdpPorts == {None, "67"}

Flows ==
  [in_port : Ports, flow_id : {55},
   eth_type : EtherTypes, ip_protocol : IpProtocols, ipv4_dst : Ipv4Addrs,
   udp_dst : UdpPorts, udp_src : UdpPorts, inner_vid : {None},
   npush : 0 .. 2, tpid : {"0x8100"}, pon_port : SouthboundPorts]

\* flows used to drive the lifecycle: no match (plain), EAPOL, and a
\* DHCP-like IPv4/UDP match
LifecycleFlows ==
  {f \in Flows :
     /\ f.npush \in {1, 2}
     /\ is_pon_port(f.in_port) \/ f.pon_port = NoGems
     /\ \/ f.eth_type = None /\ f.ip_protocol = None /\ f.ipv4_dst = None
             /\ f.udp_dst = None /\ f.udp_src = None
        \/ f.eth_type = EAPOL /\ f.ip_protocol = None /\ f.ipv4_dst = None
             /\ f.udp_dst = None /\ f.udp_src = None
        \/ f.eth_type = IPv4 /\ f.ip_protocol = UDP /\ f.ipv4_dst = None
             /\ f.udp_dst = "67" /\ f.udp_src = None}

\* the circuit handed to the constructor: None, or an EVC whose flow entry
\* pops pop_vlan tags
NoEvc == [exists |-> FALSE, name |-> None, pop_vlan |-> 0,
          ce_vlan_preservation |-> TRUE,
          men_to_uni_tag_manipulation |-> None, switching_method |-> None,
          stpid |-> None, evc_maps |-> {}]
NewEvc(pop, manip) ==
  [exists |-> TRUE, name |-> "EVC-1", pop_vlan |-> pop,
   ce_vlan_preservation |-> TRUE,
   men_to_uni_tag_manipulation |-> manip, switching_method |-> manip,
   stpid |-> None, evc_maps |-> {}]
Evcs == {NoEvc} \cup {NewEvc(p, x) : p \in 0 .. 2, x \in {None, "DEFAULT"}}
LifecycleEvcs == {NoEvc, NewEvc(1, None)}

\* EVC.add_evc_map / EVC.remove_evc_map: the circuit's descriptor collection
add_evc_map(c, name) == [c EXCEPT !.evc_maps = @ \cup {name}]
remove_evc_map(c, name) == [c EXCEPT !.evc_maps = @ \ {name}]

VARIABLES
  inFlow,       \* the flow rule given to the constructor
  is_ingress,   \* the is_ingress_map argument
  evc,          \* the circuit object (NoEvc when the argument is None)
  m,            \* the EVCMap object
  fg,           \* the caller's call that is suspended at a yield, or "idle"
  bg,           \* pon_install coroutines started by install() and suspended
  res,          \* outcome of the caller's latest call
  ev,           \* the latest answer of the transport
  lastReq,      \* the latest request handed to the transport
  fin,          \* how the latest pon_install ended
  nreq,         \* number of edit_config requests issued for the descriptor
  ncalls,       \* number of calls made by the caller
  ra            \* the remove_all sweep

vars == <<inFlow, is_ingress, evc, m, fg, bg, res, ev, lastReq, fin, nreq,
          ncalls, ra>>

\* ------------------------------------------------------------ __init__
\* fields as set by lines 59-93, before _decode runs
NewMap(hasEvc) ==
  [constructed |-> FALSE, flow |-> TRUE, evc |-> hasEvc, gem_ids |-> NoGems,
   installed |-> FALSE, status_message |-> None, name |-> NoName,
   enabled |-> TRUE, uni_port |-> None,
   evc_connection |-> "NO_EVC_CONNECTION", evc_name |-> None,
   c_tag |-> None, eth_type |-> None, ip_protocol |-> None,
   ipv4_dst |-> None, udp_dst |-> None, udp_src |-> None, valid |-> FALSE]

\* _needs_acl_support property
needs_acl_support(d) ==
  \/ d.eth_type # None \/ d.ip_protocol # None \/ d.ipv4_dst # None
  \/ d.udp_dst # None \/ d.udp_src # None

\* DecodeAcl without the tests of lines 409 and 413
DecodeAcl_Unconditional(d, f) ==
  [d EXCEPT !.eth_type = f.eth_type, !.ip_protocol = f.ip_protocol,
            !.ipv4_dst = f.ipv4_dst, !.udp_dst = f.udp_dst,
            !.udp_src = f.udp_src]

\* _decode, lines 407-417: the ACL fields
DecodeAcl(d, f) ==
  LET d1 == [d EXCEPT !.eth_type = f.eth_type] IN
  IF d1.eth_type = IPv4
    THEN LET d2 == [d1 EXCEPT !.ip_protocol = f.ip_protocol,
                              !.ipv4_dst = f.ipv4_dst] IN
         IF d2.ip_protocol = UDP
           THEN [d2 EXCEPT !.udp_dst = f.udp_dst, !.udp_src = f.udp_src]
           ELSE d2
    ELSE d1

\* _decode, lines 422-429: the fan-out channel table
DecodeGems(d, f, ingress) ==
  IF ingress /\ is_pon_port(f.in_port) /\ f.pon_port.kind # None
    THEN IF needs_acl_support(d) /\ d.eth_type # EAPOL
           THEN [d EXCEPT !.gem_ids = EmptyGemSet]
           ELSE [d EXCEPT !.gem_ids = f.pon_port]
    ELSE d

\* DecodeTags without the assignment of line 442
DecodeTags_NoTpid(d, c, f) ==
  IF f.npush = 1 /\ c.pop_vlan = 1
    THEN [ret |-> "True", m |-> d,
          evc |-> [c EXCEPT !.men_to_uni_tag_manipulation = "SYMMETRIC",
                            !.switching_method = "SINGLE_TAGGED"]]
  ELSE IF f.npush = 2 /\ c.pop_vlan = 1
    THEN [ret |-> "raise", m |-> d,
          evc |-> [c EXCEPT
                     !.men_to_uni_tag_manipulation = "POP_OUT_TAG_ONLY",
                     !.switching_method = "DOUBLE_TAGGED"]]
  ELSE [ret |-> "True", m |-> d, evc |-> c]

\* DecodeTags without the raise of line 449
DecodeTags_Accept(d, c, f) ==
  IF f.npush = 1 /\ c.pop_vlan = 1
    THEN [ret |-> "True", m |-> d,
          evc |-> [c EXCEPT !.men_to_uni_tag_manipulation = "SYMMETRIC",
                            !.switching_method = "SINGLE_TAGGED",
                            !.stpid = f.tpid]]
  ELSE IF f.npush = 2 /\ c.pop_vlan = 1
    THEN [ret |-> "True", m |-> d,
          evc |-> [c EXCEPT
                     !.men_to_uni_tag_manipulation = "POP_OUT_TAG_ONLY",
                     !.switching_method = "DOUBLE_TAGGED"]]
  ELSE [ret |-> "True", m |-> d, evc |-> c]

\* _decode, lines 437-451: tag manipulation; ret "raise" is the
\* NotImplementedError
DecodeTags(d, c, f) ==
  IF f.npush = 1 /\ c.pop_vlan = 1
    THEN [ret |-> "True", m |-> d,
          evc |-> [c EXCEPT !.men_to_uni_tag_manipulation = "SYMMETRIC",
                            !.switching_method = "SINGLE_TAGGED",
                            !.stpid = f.tpid]]
  ELSE IF f.npush = 2 /\ c.pop_vlan = 1
    THEN [ret |-> "raise", m |-> d,
          evc |-> [c EXCEPT
                     !.men_to_uni_tag_manipulation = "POP_OUT_TAG_ONLY",
                     !.switching_method = "DOUBLE_TAGGED"]]
  ELSE [ret |-> "True", m |-> d, evc |-> c]

\* _decode: ret is "True", "False" or "raise"
Decode(d, c, f, ingress) ==
  LET d1 == [d EXCEPT !.name = EVC_MAP_NAME_FORMAT(f.in_port, f.flow_id)] IN
  IF ~d1.evc
    THEN [ret |-> "False", m |-> [d1 EXCEPT !.status_message = StatusNoEvc],
          evc |-> c]
  ELSE
  LET d2 == [d1 EXCEPT !.evc_connection = "EVC", !.evc_name = c.name] IN
  IF ~(is_pon_port(f.in_port) \/ is_uni_port(f.in_port))
    THEN [ret |-> "False", m |-> [d2 EXCEPT !.status_message = StatusNoPort],
          evc |-> c]
  ELSE
  LET d3 == [d2 EXCEPT !.uni_port = f.in_port]
      c3 == [c EXCEPT !.ce_vlan_preservation = FALSE]
      d4 == DecodeAcl(d3, f)
      d5 == DecodeGems(d4, f, ingress)
      d6 == [d5 EXCEPT !.c_tag = f.inner_vid]
  IN DecodeTags(d6, c3, f)

\* __init__, lines 95-105: an exception of _decode is caught and logged
ConstructMap(d, c, f, ingress) ==
  LET r == Decode(d, c, f, ingress)
      d1 == [r.m EXCEPT !.valid = (r.ret = "True"), !.constructed = TRUE]
  IN IF d1.valid
       THEN [m |-> d1, evc |-> add_evc_map(r.evc, d1.name), raised |-> FALSE]
       ELSE [m |-> [d1 EXCEPT !.evc = FALSE], evc |-> r.evc,
             raised |-> FALSE]

\* ------------------------------------------------------- transport model
Outcomes == {"ok", "err", "exc"}
NoReq == [by |-> "none", op |-> "none", names |-> {}, unit |-> 0]
NoEv == [by |-> "none", what |-> "none", got |-> "none"]
NoFin == [how |-> "none", asked |-> {}, n |-> 0, ret |-> "none",
          allok |-> TRUE]
NoRes == [op |-> "none", out |-> "none"]
Ret(b) == IF b THEN "True" ELSE "False"

\* the documents handed to edit_config, by the entries they name
CreateReq(d) ==
  [by |-> "install", op |-> "create", names |-> {d.name}, unit |-> 0]
\* PonCreateReq with the gem ports of every unit in each request
PonCreateReq_AllUnits(d, onu_id) ==
  [by |-> "pon_install", op |-> "create",
   names |-> {SubName(d.name, onu_id, g) :
                g \in UNION {d.gem_ids.tbl[u] : u \in DOMAIN d.gem_ids.tbl}},
   unit |-> onu_id]

PonCreateReq(d, onu_id) ==
  [by |-> "pon_install", op |-> "create",
   names |-> {SubName(d.name, onu_id, g) : g \in d.gem_ids.tbl[onu_id]},
   unit |-> onu_id]
RemoveReq(d) ==
  [by |-> "remove", op |-> "remove", names |-> {d.name}, unit |-> 0]
EnableReq(d) ==
  [by |-> "enable", op |-> "enable", names |-> {d.name}, unit |-> 0]
DisableReq(d) ==
  [by |-> "disable", op |-> "disable", names |-> {d.name}, unit |-> 0]

\* ---------------------------------------------------------------- install
\* InstallStart setting the flag before the request, as pon_install does
InstallStart_Optimistic(d) ==
  IF d.valid /\ ~d.installed
    THEN IF needs_acl_support(d)
           THEN [m |-> [d EXCEPT !.installed = TRUE], kind |-> "acl"]
           ELSE [m |-> [d EXCEPT !.installed = TRUE], kind |-> "request"]
    ELSE [m |-> d, kind |-> "skip"]

\* InstallStart without the placeholder branch of line 178
InstallStart_NoAcl(d) ==
  IF d.valid /\ ~d.installed
    THEN [m |-> d, kind |-> "request"]
    ELSE [m |-> d, kind |-> "skip"]

\* install, lines 158-182, up to the yield: kind is "skip" (guard false),
\* "acl" (placeholder), or "request"
InstallStart(d) ==
  IF d.valid /\ ~d.installed
    THEN IF needs_acl_support(d)
           THEN [m |-> [d EXCEPT !.installed = TRUE], kind |-> "acl"]
           ELSE [m |-> d, kind |-> "request"]
    ELSE [m |-> d, kind |-> "skip"]

\* install, lines 183-191: the continuation after the yield
InstallResume(d, r) ==
  IF r = "exc" THEN [m |-> d, raised |-> TRUE]
  ELSE [m |-> [d EXCEPT !.installed = (r = "ok"),
                        !.status_message = IF r = "ok" THEN "" ELSE ErrDetail],
        raised |-> FALSE]

\* install, line 210
InstallReturn(d) == Ret(d.installed /\ d.valid)

\* ------------------------------------------------------------ pon_install
\* PonBegin with the guard of line 219 as `not self._installed`
PonBegin_NoValid(d) ==
  IF ~d.installed
    THEN IF d.gem_ids.kind = "dict"
           THEN [m |-> [d EXCEPT !.installed = TRUE], kind |-> "loop"]
           ELSE [m |-> [d EXCEPT !.installed = TRUE], kind |-> "raise"]
    ELSE [m |-> d, kind |-> "skip"]

\* pon_install, lines 219-224: kind is "skip" (guard false), "raise"
\* (set().iteritems() is an AttributeError) or "loop"
PonBegin(d) ==
  IF d.valid /\ ~d.installed
    THEN IF d.gem_ids.kind = "dict"
           THEN [m |-> [d EXCEPT !.installed = TRUE], kind |-> "loop"]
           ELSE [m |-> [d EXCEPT !.installed = TRUE], kind |-> "raise"]
    ELSE [m |-> d, kind |-> "skip"]

\* pon_install, lines 224-252 and 260-263: the top of the loop with `todo`
\* the units not yet visited.  iteritems() visits the units in the dict's
\* order, the same on every call; the units are numbered in that order.
\* With _flow None the request cannot be built and the AttributeError is
\* handled by the except clause.
NextUnit(todo) == CHOOSE u \in todo : \A v \in todo : u <= v
PonLoop(d, todo) ==
  IF todo = {} THEN [m |-> d, kind |-> "returned", unit |-> 0]
  ELSE IF ~d.flow
    THEN [m |-> [d EXCEPT !.installed = FALSE], kind |-> "error",
          unit |-> 0]
  ELSE [m |-> d, kind |-> "request", unit |-> NextUnit(todo)]

\* pon_install, lines 253-263: the continuation after the yield
PonResume(d, r) ==
  IF r = "exc" THEN [m |-> [d EXCEPT !.installed = FALSE], raised |-> TRUE]
  ELSE [m |-> [d EXCEPT !.installed = (r = "ok"),
                        !.status_message = IF r = "ok" THEN "" ELSE ErrDetail],
        raised |-> FALSE]

\* ----------------------------------------------------------------- remove
\* remove, lines 285-296, up to the yield; "raise" is the AttributeError of
\* self._flow.handler once delete has cleared _flow
RemoveStart(d) ==
  IF d.installed
    THEN IF needs_acl_support(d)
           THEN [m |-> [d EXCEPT !.installed = FALSE], kind |-> "acl"]
         ELSE IF ~d.flow THEN [m |-> d, kind |-> "raise"]
         ELSE [m |-> d, kind |-> "request"]
    ELSE [m |-> d, kind |-> "skip"]

\* RemoveResume with line 297 as `self._installed = results.ok`
RemoveResume_Same(d, r) ==
  IF r = "exc" THEN [m |-> d, raised |-> TRUE]
  ELSE [m |-> [d EXCEPT !.installed = (r = "ok"),
                        !.status_message = IF r = "ok" THEN "" ELSE ErrDetail],
        raised |-> FALSE]

\* remove, lines 297-305
RemoveResume(d, r) ==
  IF r = "exc" THEN [m |-> d, raised |-> TRUE]
  ELSE [m |-> [d EXCEPT !.installed = ~(r = "ok"),
                        !.status_message = IF r = "ok" THEN "" ELSE ErrDetail],
        raised |-> FALSE]

\* remove, line 309
RemoveReturn(d) == Ret(d.installed)

\* --------------------------------------------------------- enable/disable
\* enable, lines 313-323
EnableStart(d) ==
  IF d.installed /\ ~d.enabled
    THEN IF needs_acl_support(d)
           THEN [m |-> [d EXCEPT !.enabled = TRUE], kind |-> "acl"]
         ELSE IF ~d.flow THEN [m |-> d, kind |-> "raise"]
         ELSE [m |-> d, kind |-> "request"]
    ELSE [m |-> d, kind |-> "skip"]

\* enable, lines 324-332
EnableResume(d, r) ==
  IF r = "exc" THEN [m |-> d, raised |-> TRUE]
  ELSE [m |-> [d EXCEPT !.enabled = (r = "ok"),
                        !.status_message = IF r = "ok" THEN "" ELSE ErrDetail],
        raised |-> FALSE]

\* enable, line 334
EnableReturn(d) == Ret(d.installed /\ d.enabled)

\* disable, lines 338-348
DisableStart(d) ==
  IF d.installed /\ d.enabled
    THEN IF needs_acl_support(d)
           THEN [m |-> [d EXCEPT !.enabled = FALSE], kind |-> "acl"]
         ELSE IF ~d.flow THEN [m |-> d, kind |-> "raise"]
         ELSE [m |-> d, kind |-> "request"]
    ELSE [m |-> d, kind |-> "skip"]

\* DisableResume with line 350 as `self._enabled = results.ok`
DisableResume_Same(d, r) ==
  IF r = "exc" THEN [m |-> d, raised |-> TRUE]
  ELSE [m |-> [d EXCEPT !.enabled = (r = "ok"),
                        !.status_message = IF r = "ok" THEN "" ELSE ErrDetail],
        raised |-> FALSE]

\* disable, lines 349-357
DisableResume(d, r) ==
  IF r = "exc" THEN [m |-> d, raised |-> TRUE]
  ELSE [m |-> [d EXCEPT !.enabled = ~(r = "ok"),
                        !.status_message = IF r = "ok" THEN "" ELSE ErrDetail],
        raised |-> FALSE]

\* disable, line 359
DisableReturn(d) == Ret(d.installed /\ ~d.enabled)

\* ----------------------------------------------------------------- delete
\* delete, line 367
DeleteBegin(d) == [d EXCEPT !.valid = FALSE]

\* DeleteSucceeded without the except clause of line 371
DeleteSucceeded_Propagate(d, raised) ==
  IF raised THEN "raised" ELSE Ret(d.installed)

\* delete, lines 368-372: `succeeded` from the outcome of remove()
DeleteSucceeded(d, raised) == IF raised THEN "False" ELSE RemoveReturn(d)

\* DeleteFinally without the remove_evc_map call of line 378
DeleteFinally_KeepRegistered(d, c) ==
  [m |-> [d EXCEPT !.flow = FALSE, !.evc = FALSE], evc |-> c]

\* delete, lines 374-378: the finally clause
DeleteFinally(d, c) ==
  [m |-> [d EXCEPT !.flow = FALSE, !.evc = FALSE],
   evc |-> IF d.evc THEN remove_evc_map(c, d.name) ELSE c]

\* -------------------------------------------------------------- remove_all
\* Entry names are strings over Chars; a regular expression is a sequence
\* of atoms, each a literal character or a starred character.
Chars == {"V", "-"}
Names == UNION {[1 .. n -> Chars] : n \in 1 .. 2}
Atoms == [c : Chars, star : BOOLEAN]
Regexes == UNION {[1 .. n -> Atoms] : n \in 1 .. 2}
\* the analogue of EVC_MAP_NAME_REGEX_ALL = 'VOLTHA-*'
EVC_MAP_NAME_REGEX_ALL ==
  <<[c |-> "V", star |-> FALSE], [c |-> "-", star |-> TRUE]>>

\* re.compile(regexpr).match(name): the expression matches a prefix of name
RECURSIVE match(_, _)
match(p, name) ==
  IF p = <<>> THEN TRUE
  ELSE LET a == Head(p) IN
    IF a.star
      THEN \/ match(Tail(p), name)
           \/ name # <<>> /\ Head(name) = a.c /\ match(p, Tail(name))
      ELSE name # <<>> /\ Head(name) = a.c /\ match(Tail(p), Tail(name))

\* An <evc-map> element of the reply, as xmltodict hands it to do_delete:
\*   a name n             <evc-map><name>n</name></evc-map>, {'name': n}
\*   <<None>>             <evc-map><name/></evc-map>, {'name': None}
\*   NoNameEntry          an element with children but no <name>, e.g.
\*                        <evc-map><enabled>true</enabled></evc-map>: a dict
\*                        without the key 'name'
\*   ChildlessEntry       <evc-map/>: None instead of a dict
NoNameEntry == <<"no-name">>
ChildlessEntry == <<"childless">>
EntryNames == Names \cup {<<None>>, NoNameEntry, ChildlessEntry}

\* a reply to client.get: kind "ok" (rpc_reply.ok), "bad" (rpc_reply.ok with
\* data that xmltodict.parse or the lookups of lines 486-488 reject: no
\* <data>, an empty <data/>, or a bare <evc-maps/> without attributes, for
\* which xmltodict gives None), "err" (not ok) or "exc" (the deferred
\* fails).  The entries of an ok reply are its <evc-map> elements; with no
\* entries the data holds no <evc-maps> element or one that carries only
\* its xmlns attribute.
Replies ==
  [kind : {"ok"}, entries : UNION {[1 .. n -> EntryNames] : n \in 0 .. MaxEntries}]
  \cup [kind : {"bad", "err", "exc"}, entries : {<<>>}]
NoReply == [kind |-> "none", entries |-> <<>>]

\* _xml_header(operation) and _xml_trailer(), as tokens of the document
xml_header(operation) == [t |-> "header", v |-> <<operation>>]
xml_trailer == [t |-> "trailer", v |-> <<>>]
\* line 504, '<name>{}</name>'.format(name): the name None is written as
\* the text None
Format(name) == IF name = <<None>> THEN <<"N", "o", "n", "e">> ELSE name
NameElement(name) == [t |-> "name", v |-> Format(name)]

\* do_delete, lines 488-499: the names selected from the parsed reply, or
\* raised = TRUE for the TypeError / AttributeError of these lines.
\* xmltodict gives a list for several <evc-map> elements and the element
\* itself for one.  In the list, `'name' in entry` fails on a childless
\* element (None) and p.match(None) fails on an empty <name/>; alone, a
\* childless element has no .items(), and the name of the element is taken
\* without matching, None included.
SelectNames(entries, p) ==
  IF Len(entries) = 0 THEN [raised |-> FALSE, names |-> {}]
  ELSE IF Len(entries) >= 2
    THEN IF \E i \in 1 .. Len(entries) :
                entries[i] \in {ChildlessEntry, <<None>>}
           THEN [raised |-> TRUE, names |-> {}]
           ELSE [raised |-> FALSE,
                 names |-> {entries[i] : i \in {j \in 1 .. Len(entries) :
                                          /\ entries[j] # NoNameEntry
                                          /\ match(p, entries[j])}}]
  ELSE IF entries[1] = ChildlessEntry THEN [raised |-> TRUE, names |-> {}]
  ELSE IF entries[1] = NoNameEntry THEN [raised |-> FALSE, names |-> {}]
  ELSE [raised |-> FALSE, names |-> {entries[1]}]

\* do_delete, lines 502-505: the delete document for the names in the
\* order `order`
RECURSIVE NameLoop(_)
NameLoop(order) ==
  IF order = <<>> THEN <<>>
  ELSE <<NameElement(Head(order)), xml_trailer>> \o NameLoop(Tail(order))
DelXml(order) == <<xml_header("delete")>> \o NameLoop(order)

Orders(S) == {o \in [1 .. Cardinality(S) -> S] :
                \A i, j \in 1 .. Cardinality(S) : i # j => o[i] # o[j]}

\* request_failed returning its argument, so that the failure stays in the
\* chain
request_failed_Propagate(operation) == "failure"

\* request_failed, lines 474-476: logs and returns None, which puts the
\* chain back into the success state
request_failed(operation) == "success"

\* delete_complete, lines 478-479: logs and returns None
delete_complete == "success"

\* do_delete, lines 481-510: what the callback of the get does with the
\* reply: it raises, returns the deferred of one edit_config, or returns
\* succeed('no entries')
do_delete(reply, p) ==
  IF reply.kind = "bad" THEN [kind |-> "raise", names |-> {}]
  ELSE IF reply.kind = "ok" /\ SelectNames(reply.entries, p).raised
    THEN [kind |-> "raise", names |-> {}]
  ELSE IF reply.kind = "ok" /\ SelectNames(reply.entries, p).names # {}
    THEN [kind |-> "request", names |-> SelectNames(reply.entries, p).names]
  ELSE [kind |-> "value", names |-> {}]

\* line 514: the second addCallbacks, entered with the chain in state `st`
SecondStage(st) ==
  IF st = "failure" THEN request_failed("edit-config") ELSE delete_complete

\* line 513: the first addCallbacks for a get whose deferred failed
FirstStageErrback == SecondStage(request_failed("get"))

RaIdle == [pc |-> "idle", regex |-> <<>>, reply |-> NoReply,
           del_xml |-> <<>>, ngets |-> 0, ndels |-> 0, del_out |-> "none",
           result |-> "none"]

\* remove_all(client, regex_): lines 512-515, client.get is issued
RemoveAll ==
  /\ ra.pc = "idle"
  /\ \E p \in Regexes :
       ra' = [ra EXCEPT !.pc = "get", !.regex = p, !.ngets = @ + 1]
  /\ UNCHANGED <<inFlow, is_ingress, evc, m, fg, bg, res, ev, lastReq, fin,
                 nreq, ncalls>>

\* the get is answered: do_delete (callback) or request_failed (errback)
\* runs, then the second stage unless do_delete returned the deferred of
\* its edit_config
GetRespond ==
  /\ ra.pc = "get"
  /\ \E reply \in Replies :
       IF reply.kind = "exc"
         THEN ra' = [ra EXCEPT !.pc = "done", !.reply = reply,
                               !.result = FirstStageErrback]
       ELSE LET x == do_delete(reply, ra.regex) IN
         IF x.kind = "request"
           THEN \E o \in Orders(x.names) :
                  ra' = [ra EXCEPT !.pc = "del", !.reply = reply,
                                   !.del_xml = DelXml(o), !.ndels = @ + 1]
           ELSE ra' = [ra EXCEPT
                         !.pc = "done", !.reply = reply,
                         !.result = SecondStage(IF x.kind = "raise"
                                                  THEN "failure"
                                                  ELSE "success")]
  /\ UNCHANGED <<inFlow, is_ingress, evc, m, fg, bg, res, ev, lastReq, fin,
                 nreq, ncalls>>

\* the delete is answered: a reply, ok or not, goes to delete_complete and
\* a failed deferred to request_failed
DelRespond ==
  /\ ra.pc = "del"
  /\ \E r \in Outcomes :
       ra' = [ra EXCEPT !.pc = "done", !.del_out = r,
                        !.result = SecondStage(IF r = "exc" THEN "failure"
                                                            ELSE "success")]
  /\ UNCHANGED <<inFlow, is_ingress, evc, m, fg, bg, res, ev, lastReq, fin,
                 nreq, ncalls>>

InitRA ==
  /\ inFlow \in {f \in LifecycleFlows : f.in_port = 5 /\ f.npush = 1
                   /\ f.eth_type = None /\ f.pon_port = NoGems}
  /\ is_ingress = TRUE
  /\ evc = NoEvc
  /\ m = NewMap(evc.exists)
  /\ fg = "idle"
  /\ bg = <<>>
  /\ res = NoRes
  /\ ev = NoEv
  /\ lastReq = NoReq
  /\ fin = NoFin
  /\ nreq = 0
  /\ ncalls = 0
  /\ ra = RaIdle

NextRA == RemoveAll \/ GetRespond \/ DelRespond

SpecRA == InitRA /\ [][NextRA]_vars

\* ====================================================== the state machine
Init ==
  /\ inFlow \in LifecycleFlows
  /\ is_ingress \in BOOLEAN
  /\ is_ingress \/ inFlow.pon_port = NoGems
  /\ evc \in LifecycleEvcs
  /\ m = NewMap(evc.exists)
  /\ fg = "idle"
  /\ bg = <<>>
  /\ res = NoRes
  /\ ev = NoEv
  /\ lastReq = NoReq
  /\ fin = NoFin
  /\ nreq = 0
  /\ ncalls = 0
  /\ ra = RaIdle

\* EVCMap(flow, evc, is_ingress_map)
Construct ==
  /\ ~m.constructed
  /\ LET r == ConstructMap(m, evc, inFlow, is_ingress) IN
       /\ m' = r.m
       /\ evc' = r.evc
       /\ res' = [op |-> "construct",
                  out |-> IF r.raised THEN "raised" ELSE "returned"]
  /\ UNCHANGED <<inFlow, is_ingress, fg, bg, ev, lastReq, fin, nreq,
                 ncalls, ra>>

CanCall == m.constructed /\ fg = "idle" /\ ncalls < MaxCalls

RemoveAt(s, i) == SubSeq(s, 1, i - 1) \o SubSeq(s, i + 1, Len(s))

\* one pass through the top of pon_install's loop, x = PonLoop(..):
\* coroutine i of bg (0: a new one) with `todo` unvisited units, `asked`
\* the units of its n requests so far and `ret` the value its install()
\* call returned; `allok` tells whether every response so far was ok;
\* fin.how is "returned", "error" (AttributeError) or "exc" (the
\* transport's exception, re-raised)
PonEffects(x, i, todo, asked, n, ret, allok) ==
  /\ m' = x.m
  /\ IF x.kind = "request"
       THEN LET co == [wait |-> x.unit, todo |-> todo \ {x.unit},
                       asked |-> asked \cup {x.unit}, n |-> n + 1,
                       ret |-> ret, allok |-> allok] IN
            /\ bg' = IF i = 0 THEN Append(bg, co) ELSE [bg EXCEPT ![i] = co]
            /\ lastReq' = PonCreateReq(x.m, x.unit)
            /\ nreq' = nreq + 1
            /\ fin' = NoFin
       ELSE /\ bg' = IF i = 0 THEN bg ELSE RemoveAt(bg, i)
            /\ fin' = [how |-> x.kind, asked |-> asked, n |-> n, ret |-> ret,
                       allok |-> allok]
            /\ UNCHANGED <<lastReq, nreq>>

\* install() on a descriptor with a channel table: pon_install() is called
\* without yield (line 156), runs up to its first yield, and install()
\* returns at line 210
InstallPon ==
  /\ CanCall
  /\ m.gem_ids.kind # None
  /\ LET b == PonBegin(m) IN
       IF b.kind = "loop"
         THEN LET x == PonLoop(b.m, DOMAIN b.m.gem_ids.tbl) IN
                /\ PonEffects(x, 0, DOMAIN b.m.gem_ids.tbl, {}, 0,
                              InstallReturn(x.m), TRUE)
                /\ res' = [op |-> "install", out |-> InstallReturn(x.m)]
         ELSE /\ m' = b.m
              /\ res' = [op |-> "install", out |-> InstallReturn(b.m)]
              /\ fin' = IF b.kind = "raise"
                          THEN [how |-> "error", asked |-> {}, n |-> 0,
                                ret |-> InstallReturn(b.m), allok |-> TRUE]
                          ELSE NoFin
              /\ UNCHANGED <<bg, lastReq, nreq>>
  /\ ev' = NoEv
  /\ ncalls' = ncalls + 1
  /\ UNCHANGED <<inFlow, is_ingress, evc, fg, ra>>

\* a call of one of the four plain operations, up to its yield or return
PlainCall(op, s, req, retval) ==
  /\ CanCall
  /\ m' = s.m
  /\ IF s.kind = "request"
       THEN /\ fg' = op
            /\ res' = [op |-> op, out |-> "pending"]
            /\ lastReq' = req
            /\ nreq' = nreq + 1
       ELSE /\ fg' = "idle"
            /\ res' = [op |-> op,
                       out |-> IF s.kind = "raise" THEN "raised" ELSE retval]
            /\ UNCHANGED <<lastReq, nreq>>
  /\ ev' = NoEv
  /\ fin' = NoFin
  /\ ncalls' = ncalls + 1
  /\ UNCHANGED <<inFlow, is_ingress, evc, bg, ra>>

\* install() on a descriptor without a channel table
InstallPlain ==
  /\ m.gem_ids.kind = None
  /\ LET s == InstallStart(m) IN
       PlainCall("install", s, CreateReq(s.m), InstallReturn(s.m))

Remove ==
  /\ fg = "idle"
  /\ LET s == RemoveStart(m) IN
       PlainCall("remove", s, RemoveReq(s.m), RemoveReturn(s.m))

Enable ==
  /\ fg = "idle"
  /\ LET s == EnableStart(m) IN
       PlainCall("enable", s, EnableReq(s.m), EnableReturn(s.m))

Disable ==
  /\ fg = "idle"
  /\ LET s == DisableStart(m) IN
       PlainCall("disable", s, DisableReq(s.m), DisableReturn(s.m))

\* delete(): up to the yield inside remove(), or to its return
Delete ==
  /\ CanCall
  /\ LET s == RemoveStart(DeleteBegin(m)) IN
       IF s.kind = "request"
         THEN /\ m' = s.m
              /\ fg' = "delete"
              /\ res' = [op |-> "delete", out |-> "pending"]
              /\ lastReq' = RemoveReq(s.m)
              /\ nreq' = nreq + 1
              /\ evc' = evc
         ELSE LET f == DeleteFinally(s.m, evc) IN
              /\ m' = f.m
              /\ evc' = f.evc
              /\ fg' = "idle"
              /\ res' = [op |-> "delete",
                         out |-> DeleteSucceeded(s.m, s.kind = "raise")]
              /\ UNCHANGED <<lastReq, nreq>>
  /\ ev' = NoEv
  /\ fin' = NoFin
  /\ ncalls' = ncalls + 1
  /\ UNCHANGED <<inFlow, is_ingress, bg, ra>>

\* the transport answers the request of the suspended call
PlainRespond(op, p, retval, r) ==
  /\ fg = op
  /\ m' = p.m
  /\ fg' = "idle"
  /\ res' = [op |-> op, out |-> IF p.raised THEN "raised" ELSE retval]
  /\ ev' = [by |-> op, what |-> r, got |-> res'.out]
  /\ UNCHANGED <<inFlow, is_ingress, evc, bg, lastReq, fin, nreq, ncalls, ra>>

InstallRespond ==
  /\ fg = "install"
  /\ \E r \in Outcomes : LET p == InstallResume(m, r) IN
       PlainRespond("install", p, InstallReturn(p.m), r)

RemoveRespond ==
  /\ fg = "remove"
  /\ \E r \in Outcomes : LET p == RemoveResume(m, r) IN
       PlainRespond("remove", p, RemoveReturn(p.m), r)

EnableRespond ==
  /\ fg = "enable"
  /\ \E r \in Outcomes : LET p == EnableResume(m, r) IN
       PlainRespond("enable", p, EnableReturn(p.m), r)

DisableRespond ==
  /\ fg = "disable"
  /\ \E r \in Outcomes : LET p == DisableResume(m, r) IN
       PlainRespond("disable", p, DisableReturn(p.m), r)

\* the transport answers the remove request of a suspended delete()
DeleteRespond ==
  /\ fg = "delete"
  /\ \E r \in Outcomes :
       LET p == RemoveResume(m, r)
           f == DeleteFinally(p.m, evc)
       IN /\ m' = f.m
          /\ evc' = f.evc
          /\ res' = [op |-> "delete", out |-> DeleteSucceeded(p.m, p.raised)]
          /\ ev' = [by |-> "remove", what |-> r,
                    got |-> IF p.raised THEN "raised" ELSE RemoveReturn(p.m)]
  /\ fg' = "idle"
  /\ UNCHANGED <<inFlow, is_ingress, bg, lastReq, fin, nreq, ncalls, ra>>

\* the transport answers the request of a suspended pon_install
PonRespond ==
  /\ bg # <<>>
  /\ \E i \in 1 .. Len(bg) : \E r \in Outcomes :
    LET co == bg[i]
        p == PonResume(m, r)
    IN /\ ev' = [by |-> "pon_install", what |-> r, got |-> co.ret]
       /\ IF p.raised
            THEN /\ m' = p.m
                 /\ bg' = RemoveAt(bg, i)
                 /\ fin' = [how |-> "exc", asked |-> co.asked, n |-> co.n,
                            ret |-> co.ret, allok |-> FALSE]
                 /\ UNCHANGED <<lastReq, nreq>>
            ELSE LET x == PonLoop(p.m, co.todo) IN
                   PonEffects(x, i, co.todo, co.asked, co.n, co.ret,
                              co.allok /\ r = "ok")
       /\ UNCHANGED <<inFlow, is_ingress, evc, fg, res, ncalls, ra>>

Next ==
  \/ Construct
  \/ InstallPon
  \/ InstallPlain
  \/ Remove
  \/ Enable
  \/ Disable
  \/ Delete
  \/ InstallRespond
  \/ RemoveRespond
  \/ EnableRespond
  \/ DisableRespond
  \/ DeleteRespond
  \/ PonRespond

Spec == Init /\ [][Next]_vars

\* ---------------------------------------------------- decoding in isolation
InitDecode ==
  /\ inFlow \in Flows
  /\ is_ingress \in BOOLEAN
  /\ evc \in Evcs
  /\ m = NewMap(evc.exists)
  /\ fg = "idle"
  /\ bg = <<>>
  /\ res = NoRes
  /\ ev = NoEv
  /\ lastReq = NoReq
  /\ fin = NoFin
  /\ nreq = 0
  /\ ncalls = 0
  /\ ra = RaIdle

SpecDecode == InitDecode /\ [][Construct]_vars

\* ================================================================ claims
\* the constructor accepted the descriptor (valid = true after __init__);
\* _decode reads only fields of the circuit that never change
Accepted ==
  /\ m.constructed
  /\ Decode(NewMap(evc.exists), evc, inFlow, is_ingress).ret = "True"
Registered == m.name \in evc.evc_maps
Units(d) == IF d.gem_ids.kind = "dict" THEN DOMAIN d.gem_ids.tbl ELSE {}

\* C1 (as claimed): no edit_config request is ever issued for an accepted
\* descriptor that needs ACL support, with or without a channel table.
C1_NoRequestForAcl == (Accepted /\ needs_acl_support(m)) => nreq = 0

\* C1 (amended): for an accepted descriptor that needs ACL support and whose
\* channel table is absent or has no subscriber unit, no edit_config request
\* is ever issued, and an install() on it while it is valid ends with
\* installed = true and returns true.
C1_NoRequestForAclWithoutUnits ==
  (Accepted /\ needs_acl_support(m) /\ Units(m) = {}) =>
     /\ nreq = 0
     /\ lastReq = NoReq
     /\ (res.op = "install" /\ m.valid) => (m.installed /\ res.out = "True")

C1_Witness ==
  /\ Accepted /\ needs_acl_support(m) /\ Units(m) = {}
  /\ m.gem_ids.kind # None
  /\ res = [op |-> "install", out |-> "True"]
  /\ m.installed /\ nreq = 0

\* C2: a completed delete() has not raised, the descriptor is out of the
\* circuit's collection, its flow and circuit references are cleared, and
\* delete() returned false when its remove() raised (the transport's
\* exception, or the AttributeError that leaves installed set).
C2_DeleteNeverRaisesAndDetaches ==
  (res.op = "delete" /\ res.out # "pending") =>
     /\ res.out \in {"True", "False"}
     /\ ~Registered
     /\ ~m.flow /\ ~m.evc
     /\ (ev.by = "remove" /\ ev.what = "exc") => res.out = "False"
     /\ (ev = NoEv /\ m.installed) => res.out = "False"

C2_Witness ==
  /\ res = [op |-> "delete", out |-> "False"]
  /\ ev.by = "remove" /\ ev.what = "exc"
  /\ Accepted /\ ~Registered /\ ~m.flow

\* C3 (as claimed): when the transport raises on a request issued by
\* install (plain or fan-out), remove, enable or disable, the caller's call
\* fails with the exception, and on the fan-out path installed is false.
C3_TransportExceptionReachesCaller ==
  (ev.what = "exc") =>
     /\ ev.got = "raised"
     /\ (ev.by = "pon_install" => ~m.installed)

\* the names in a delete document
DocNames(doc) == {doc[i].v : i \in {j \in 1 .. Len(doc) : doc[j].t = "name"}}
\* the names of the reply's entries that match the expression
Matching(reply, p) ==
  {reply.entries[i] : i \in {j \in 1 .. Len(reply.entries) :
                               /\ reply.entries[j] \in Names
                               /\ match(p, reply.entries[j])}}

\* C4 (as claimed): after an ok query reply, remove_all has issued no delete
\* request when no entry name matches the expression, and otherwise exactly
\* one delete request naming exactly the matching entry names.
C4_OnlyMatchingDeleted ==
  (ra.reply.kind = "ok") =>
     IF Matching(ra.reply, ra.regex) = {}
       THEN ra.ndels = 0
       ELSE ra.ndels = 1 /\ DocNames(ra.del_xml) = Matching(ra.reply, ra.regex)

\* C5 (as claimed): in every state a constructed descriptor is in its
\* circuit's collection if and only if valid is true.
C5_RegisteredIffValid == m.constructed => (Registered <=> m.valid)

\* C5 (amended): a constructed descriptor with valid = true is in its
\* circuit's collection, and one in the collection has valid = true except
\* while a delete() on it awaits the response to its remove request.
C5_RegisteredIffValidOutsideDelete ==
  m.constructed =>
     /\ m.valid => Registered
     /\ (Registered /\ fg # "delete") => m.valid

C5_Witness == fg = "delete" /\ Registered /\ ~m.valid /\ m.installed

\* C6: every request of a fan-out install names exactly the channels of its
\* unit as {name}.{unit}.{channel}; a pon_install has issued one request for
\* each unit it has visited; and when it ends on a descriptor that is still
\* valid without an exception of the transport it has issued exactly one
\* request for every unit of the table.
C6_OneRequestPerUnit ==
  /\ (lastReq.by = "pon_install") =>
        /\ lastReq.unit \in Units(m)
        /\ lastReq.names =
             {[port |-> inFlow.in_port, id |-> inFlow.flow_id, sub |-> <<lastReq.unit, g>>]
                : g \in m.gem_ids.tbl[lastReq.unit]}
  /\ \A i \in 1 .. Len(bg) :
        /\ bg[i].n = Cardinality(bg[i].asked)
        /\ bg[i].asked \cap bg[i].todo = {}
        /\ bg[i].asked \cup bg[i].todo = Units(m)
  /\ (fin.how \in {"returned", "error"} /\ m.valid) =>
        /\ fin.asked = Units(m)
        /\ fin.n = Cardinality(Units(m))

C6_Witness ==
  /\ fin.how = "returned" /\ m.valid
  /\ Cardinality(fin.asked) >= 2 /\ fin.n = Cardinality(fin.asked)
  /\ \E u \in Units(m) : m.gem_ids.tbl[u] # {}
  /\ ~needs_acl_support(m)

\* C7: a remove() call on an installed descriptor that does not need ACL
\* support and still holds its flow issues one remove request and changes
\* no field before the response; an ok response leaves installed = false, a
\* non-ok response installed = true; a remove() call on a descriptor that is
\* not installed issues no request and changes no field.
C7_Remove ==
  [][ /\ (ncalls' = ncalls + 1 /\ res'.op = "remove") =>
           IF m.installed
             THEN (~needs_acl_support(m) /\ m.flow) =>
                     /\ nreq' = nreq + 1
                     /\ lastReq'.op = "remove" /\ lastReq'.names = {m.name}
                     /\ fg' = "remove"
                     /\ m' = m
             ELSE nreq' = nreq /\ m' = m /\ fg' = "idle" /\ res'.out = "False"
      /\ (fg = "remove" /\ fg' = "idle") =>
           /\ nreq' = nreq
           /\ ev'.what = "ok" => (~m'.installed /\ res'.out = "False")
           /\ ev'.what = "err" => (m'.installed /\ res'.out = "True")
    ]_vars

C7_Witness ==
  /\ res = [op |-> "remove", out |-> "True"]
  /\ ev.by = "remove" /\ ev.what = "err"
  /\ m.installed /\ m.valid /\ ~needs_acl_support(m)

\* C8: the constructor returns; the descriptor has valid = false and is in
\* no circuit's collection when the circuit is None, the ingress port is
\* neither PON nor UNI, or the flow pushes two tags and the circuit's flow
\* entry pops one; otherwise it has valid = true and is registered.
C8_ConstructorAcceptsOrRejects ==
  m.constructed =>
     /\ res.out = "returned"
     /\ IF \/ ~evc.exists
           \/ ~(is_pon_port(inFlow.in_port) \/ is_uni_port(inFlow.in_port))
           \/ (inFlow.npush = 2 /\ evc.pop_vlan = 1)
          THEN ~m.valid /\ ~Registered /\ ~m.evc /\ evc.evc_maps = {}
          ELSE m.valid /\ Registered /\ m.evc

C8_Witness ==
  /\ m.constructed /\ ~m.valid /\ ~Registered
  /\ evc.exists /\ is_pon_port(inFlow.in_port)
  /\ inFlow.npush = 2 /\ evc.pop_vlan = 1

\* C9 (as claimed): after construction a rejected descriptor's status holds
\* a non-empty reason.
C9_RejectionReasonRecorded ==
  (m.constructed /\ ~m.valid) => m.status_message \notin {None, ""}

\* C10: a descriptor rejected by the constructor keeps valid = false and
\* installed = false and no request is ever issued for it, whatever is
\* called on it and whether or not it carries a channel table.
C10_RejectedNeverTouchesDevice ==
  (m.constructed /\ ~Accepted) =>
     /\ ~m.valid /\ ~m.installed
     /\ nreq = 0 /\ lastReq = NoReq /\ bg = <<>> /\ fg = "idle"
     /\ ~Registered

C10_Witness ==
  /\ m.constructed /\ ~Accepted
  /\ Units(m) # {}
  /\ res = [op |-> "install", out |-> "False"]
  /\ ncalls = MaxCalls

\* the four operations whose calls are PlainCall / InstallPon steps
LifecycleOps == {"install", "remove", "enable", "disable"}
\* a step in which the caller invokes an operation
CallStep == ncalls' = ncalls + 1
\* a step in which the transport answers a request of the descriptor
ResponseStep == ncalls' = ncalls /\ m.constructed /\ (fg' # fg \/ bg' # bg)

\* C11 (as claimed): when install, remove, enable or disable has acted and
\* completed with an ok response or on the ACL-placeholder path (no request),
\* status is "" afterwards; after a non-ok response status is the response's
\* error detail.
C11_StatusAfterCompletion ==
  [][ /\ ( /\ CallStep /\ res'.op \in LifecycleOps
           /\ needs_acl_support(m) /\ m.gem_ids.kind = None
           /\ m' # m /\ nreq' = nreq ) => m'.status_message = ""
      /\ (ResponseStep /\ ev'.what = "ok") => m'.status_message = ""
      /\ (ResponseStep /\ ev'.what = "err") => m'.status_message = ErrDetail
    ]_vars

\* delete() has run to its end on the descriptor (its finally clause cleared
\* _flow) and no operation of the caller is in progress
Deleted == m.constructed /\ ~m.flow /\ fg = "idle"

\* C12, first part: an operation invoked after a completed delete issues no
\* request, sets neither valid nor installed to true and leaves the circuit's
\* collection alone.
C12_NothingAfterDelete ==
  [][ (Deleted /\ CallStep) =>
        /\ nreq' = nreq /\ lastReq' = lastReq
        /\ ~m'.valid
        /\ m'.installed => m.installed
        /\ evc' = evc ]_vars

\* C12 (as claimed): the first part, and a repeated delete() leaves the
\* descriptor's state as it was.
C12_DeleteIsFinal ==
  [][ (Deleted /\ CallStep) =>
        /\ nreq' = nreq /\ lastReq' = lastReq
        /\ ~m'.valid
        /\ m'.installed => m.installed
        /\ evc' = evc
        /\ res'.op = "delete" => m' = m ]_vars

\* C13: the deferred of remove_all never ends in the failure state, whatever
\* fails (the get, its reply, the processing of the reply, the delete); one
\* invocation issues at most one get and at most one delete, and no delete
\* when the get failed, its reply was not ok or its data was unusable.
C13_RemoveAllNeverFails ==
  /\ ra.result # "failure"
  /\ ra.pc = "done" => ra.result = "success"
  /\ ra.ngets <= 1 /\ ra.ndels <= 1
  /\ ra.reply.kind \in {"exc", "err", "bad"} => ra.ndels = 0 /\ ra.del_xml = <<>>
  /\ ra.ndels = 1 =>
       (ra.reply.kind = "ok" /\ ~SelectNames(ra.reply.entries, ra.regex).raised)

\* the delete request was issued and its deferred failed
C13_Witness ==
  /\ ra.pc = "done" /\ ra.ndels = 1 /\ ra.del_out = "exc"
  /\ ra.result = "success"

\* C14: after a successful decode the ether-type is the flow's; IP protocol
\* and destination IPv4 are non-null only for ether-type IPv4, the UDP ports
\* only if moreover the IP protocol is UDP; needs_acl_support is true exactly
\* when one of the five fields is non-null, so a flow without the IPv4
\* ether-type never gets it from its IP or UDP fields.
C14_AclFieldsConditional ==
  (m.constructed /\ m.valid) =>
    /\ m.eth_type = inFlow.eth_type
    /\ (m.ip_protocol # None \/ m.ipv4_dst # None) => m.eth_type = IPv4
    /\ (m.udp_dst # None \/ m.udp_src # None) =>
         (m.eth_type = IPv4 /\ m.ip_protocol = UDP)
    /\ needs_acl_support(m) <=>
         (\E x \in {m.eth_type, m.ip_protocol, m.ipv4_dst, m.udp_dst,
                    m.udp_src} : x # None)
    /\ inFlow.eth_type # IPv4 =>
         (needs_acl_support(m) <=> inFlow.eth_type # None)

\* a flow without ether-type whose IP and UDP fields are set was decoded
C14_Witness ==
  /\ m.constructed /\ m.valid
  /\ inFlow.eth_type = None /\ inFlow.ip_protocol = UDP
  /\ inFlow.udp_dst # None /\ inFlow.ipv4_dst # None
  /\ ~needs_acl_support(m)

\* the three circuit fields that tag-manipulation inference writes
TagFields(c) ==
  <<c.men_to_uni_tag_manipulation, c.switching_method, c.stpid>>

\* C15: constructing a descriptor for a flow on a PON or UNI port against a
\* circuit: with one pushed tag and pop-count 1 the circuit becomes
\* symmetric, single-tagged, with the pushed tag's protocol identifier; with
\* any combination other than (1 push, 1 pop) and (2 pushes, 1 pop) decoding
\* succeeds and the three circuit fields stay as they were.
C15_TagManipulation ==
  [][ ( /\ ~m.constructed /\ m'.constructed /\ evc.exists
        /\ is_pon_port(inFlow.in_port) \/ is_uni_port(inFlow.in_port) ) =>
        /\ (inFlow.npush = 1 /\ evc.pop_vlan = 1) =>
             /\ m'.valid
             /\ TagFields(evc') = <<"SYMMETRIC", "SINGLE_TAGGED", inFlow.tpid>>
        /\ ( /\ ~(inFlow.npush = 1 /\ evc.pop_vlan = 1)
             /\ ~(inFlow.npush = 2 /\ evc.pop_vlan = 1) ) =>
             /\ m'.valid
             /\ TagFields(evc') = TagFields(evc) ]_vars

\* a descriptor decoded with one push and pop-count 1 whose circuit carries
\* the inferred fields
C15_Witness ==
  /\ m.constructed /\ m.valid /\ is_pon_port(inFlow.in_port)
  /\ inFlow.npush = 1 /\ evc.pop_vlan = 1
  /\ TagFields(evc) = <<"SYMMETRIC", "SINGLE_TAGGED", inFlow.tpid>>

\* C16 (as claimed): when a fan-out install over two or more units, the only
\* operation invoked on the descriptor, has had a response to every request,
\* installed is the conjunction of the per-unit results.
C16_InstalledIsConjunction ==
  ( /\ fin.how = "returned" /\ ncalls = 1
    /\ Cardinality(fin.asked) >= 2 /\ fin.asked = Units(m) ) =>
      (m.installed <=> fin.allok)

\* C17 (as claimed): for a descriptor with a non-empty channel table every
\* request of install, remove, enable or disable addresses entries
\* {name}.{unit}.{channel} of pairs of the table, never the bare name.
C17_FanOutAddressing ==
  (m.constructed /\ Units(m) # {} /\ lastReq # NoReq) =>
    /\ m.name \notin lastReq.names
    /\ lastReq.names \subseteq
         {SubName(m.name, u, g) : u \in Units(m), g \in UNION {m.gem_ids.tbl[v] : v \in Units(m)}}
    /\ \A n \in lastReq.names : n.sub[2] \in m.gem_ids.tbl[n.sub[1]]

\* C18: enable() issues a request only on an installed, not enabled
\* descriptor and disable() only on an installed, enabled one; otherwise
\* they issue nothing and change no field.  An ok response leaves enabled at
\* the requested value; a non-ok response leaves enabled false after enable
\* and true after disable.
C18_EnableDisable ==
  [][ /\ (CallStep /\ res'.op = "enable") =>
           /\ nreq' # nreq =>
                (m.installed /\ ~m.enabled /\ nreq' = nreq + 1
                   /\ lastReq'.op = "enable")
           /\ ~(m.installed /\ ~m.enabled) =>
                (nreq' = nreq /\ m' = m /\ fg' = "idle")
      /\ (CallStep /\ res'.op = "disable") =>
           /\ nreq' # nreq =>
                (m.installed /\ m.enabled /\ nreq' = nreq + 1
                   /\ lastReq'.op = "disable")
           /\ ~(m.installed /\ m.enabled) =>
                (nreq' = nreq /\ m' = m /\ fg' = "idle")
      /\ (fg = "enable" /\ fg' = "idle") =>
           /\ ev'.what = "ok" => m'.enabled
           /\ ev'.what = "err" => ~m'.enabled
      /\ (fg = "disable" /\ fg' = "idle") =>
           /\ ev'.what = "ok" => ~m'.enabled
           /\ ev'.what = "err" => m'.enabled
    ]_vars

\* a disable answered not ok, enabled kept
C18_Witness ==
  /\ ev.by = "disable" /\ ev.what = "err" /\ fg = "idle"
  /\ res.op = "disable" /\ m.installed /\ m.enabled

\* the lifecycle fields of a descriptor
LifecycleFields(d) == <<d.installed, d.enabled, d.status_message>>

\* C19 (as claimed): on a descriptor that does not need ACL support,
\* installed, enabled and status change only in a step that handles the
\* result of a request; the step that invokes an operation leaves them alone.
C19_MutationOnlyOnResponse ==
  [][ ( /\ m.constructed /\ ~needs_acl_support(m)
        /\ LifecycleFields(m') # LifecycleFields(m) ) => ResponseStep ]_vars

\* C19 (amended): the one change made outside a response-handling step is
\* that of a fan-out install, which sets installed to true in the step that
\* invokes it, before its first request; the other operations, and the plain
\* install, leave the three fields alone until their result arrives.
C19_MutationOnResponseOrFanOutStart ==
  [][ ( /\ m.constructed /\ ~needs_acl_support(m)
        /\ LifecycleFields(m') # LifecycleFields(m)
        /\ ~ResponseStep ) =>
        /\ CallStep /\ res'.op = "install"
        /\ m.gem_ids.kind # None /\ m.valid /\ ~m.installed
        /\ m' = [m EXCEPT !.installed = TRUE] ]_vars

\* a fan-out install has been invoked and its first request is unanswered
C19_Witness ==
  /\ res.op = "install" /\ ncalls = 1 /\ nreq = 1 /\ ev = NoEv
  /\ Len(bg) = 1 /\ lastReq.by = "pon_install"
  /\ ~needs_acl_support(m) /\ m.installed /\ m.status_message = None

\* C20 (as claimed): the delete document sent for k >= 1 names is one
\* opening delete wrapper, the k name elements, and one closing wrapper
\* after the last name.
C20_SingleDeleteWrapper ==
  (ra.ndels = 1) =>
    LET doc == ra.del_xml
        k == Cardinality(DocNames(doc))
    IN /\ k >= 1
       /\ Len(doc) = k + 2
       /\ doc[1] = xml_header("delete")
       /\ doc[Len(doc)] = xml_trailer
       /\ \A i \in 2 .. Len(doc) - 1 : doc[i].t = "name"

\* C21 (as claimed): once install() has delivered its result to the caller
\* no request of that install is unanswered, and a fan-out install whose
\* per-unit request ends with a non-ok response or an exception has not
\* reported true to its caller.
C21_InstallResultAfterAnswers ==
  /\ (res.op = "install" /\ res.out \in {"True", "False"} /\ ncalls = 1) =>
       bg = <<>>
  /\ (ev.by = "pon_install" /\ ev.what \in {"err", "exc"}) =>
       ev.got # "True"

====
